---- MODULE Spec2Model ----
(***************************************************************************)
(* Model of the PostgresStorage data-access layer (package storage):       *)
(* AddSong inside WithTransaction, DeleteSong, GetSong and UpdateSong with *)
(* its two query builders.  The relational backend is modelled by the      *)
(* committed tables songs and lyrics, the id sequence of songs, and the    *)
(* rows pending in the open transaction.  Every statement sent to the      *)
(* backend may fail.  One caller issues the calls one after the other; a   *)
(* call that sends several statements advances one statement per step.     *)
(***************************************************************************)
EXTENDS Integers, Sequences, FiniteSets, TLC

\* ------------------------------------------------------------------ bounds

\* ids the songs sequence may hand out
MaxSongs == 2
\* longest verses slice given to AddSong; verse numbers in a patch are 1..MaxVerses
MaxVerses == 2
\* calls issued by the caller
MaxCalls == 3

\* ------------------------------------------------------------------ values

Nil == "nil"
ErrSongNotFound == "song not found"
ErrNoRows == "sql: no rows in result set"
ErrNoValidFields == "no valid fields to update"
ErrBackend == "backend error"
ErrUpdateSongFailed == "failed to update song: backend error"
ErrUpdateVerseFailed == "failed to update verse: backend error"

\* model.Song values handed to AddSong
SongInputs ==
    { [Group |-> "G1", Name |-> "N1", Link |-> "L1", ReleaseDate |-> "D1"] }

VerseTexts == <<"v1", "v2", "v3", "v4">>

\* verses slices handed to AddSong
VerseInputs == { SubSeq(VerseTexts, 1, n) : n \in 0..MaxVerses }

NewTexts == <<"w1", "w2", "w3", "w4">>

\* model.SongUpdate.Verses values: map[uint]string
VerseMaps == { [n \in D |-> NewTexts[n]] : D \in SUBSET (1..MaxVerses) }

\* model.SongUpdate values; "" is the zero value of a field.  ReleaseDate is
\* a string the backend casts to the column's date: a date is named here by
\* the string that denotes it, and a string that denotes none is a statement
\* that fails
SongUpdates ==
    [ Group : {"", "G2"}, Name : {"", "N2"}, ReleaseDate : {"", "D2"},
      Link : {"", "L2"}, Verses : VerseMaps ]

NoSong == [ID |-> 0, Group |-> "", Name |-> "", Link |-> "",
           ReleaseDate |-> "", InsertedAt |-> 0]

NoUpdate == [Group |-> "", Name |-> "", ReleaseDate |-> "", Link |-> "",
             Verses |-> <<>>]

EmptyRows == [i \in {} |-> 0]

\* all orders in which the keys of a map can be ranged over
Perms(S) ==
    { p \in [1..Cardinality(S) -> S] :
        \A a, b \in 1..Cardinality(S) : a # b => p[a] # p[b] }

VARIABLES
    songs,      \* committed rows of table songs: id -> row
    lyrics,     \* committed rows of table lyrics
    seq,        \* last value handed out by the id sequence of songs
    tx,         \* the open transaction and the rows it has not committed
    pc,         \* where the caller is
    call,       \* arguments and locals of the call in progress
    log,        \* statements the current (or last) call sent to the backend
    ret,        \* what the last completed call returned
    pre,        \* the committed tables when the current (or last) call began
    created,    \* id -> the verses of the AddSong that committed the song
    calls       \* calls issued so far; also the backend's clock, NOW()

vars == <<songs, lyrics, seq, tx, pc, call, log, ret, pre, created, calls>>

NoTx == [open |-> FALSE, songs |-> EmptyRows, lyrics |-> {}]

NoQuery == [set |-> <<>>, where |-> 0]

NoCall == [op |-> "none", id |-> 0, song |-> NoSong, verses |-> <<>>,
           updates |-> NoUpdate, songID |-> 0, i |-> 0, fnErr |-> Nil,
           fault |-> "none",
           query |-> NoQuery, args |-> <<>>, queue |-> <<>>]

NoRet == [op |-> "none", id |-> 0, err |-> Nil, song |-> NoSong]

\* one statement sent to the backend: its kind, its query (for an UPDATE of
\* songs), its arguments, whether it succeeded, and the id it returned
Stmt(stmt, q, args, ok) ==
    [stmt |-> stmt, q |-> q, args |-> args, ok |-> ok, res |-> 0]

Init ==
    /\ songs = EmptyRows
    /\ lyrics = {}
    /\ seq = 0
    /\ tx = NoTx
    /\ pc = "idle"
    /\ call = NoCall
    /\ log = <<>>
    /\ ret = NoRet
    /\ pre = [songs |-> EmptyRows, lyrics |-> {}]
    /\ created = EmptyRows
    /\ calls = 0

\* what every call does on entry
Enter ==
    /\ pc = "idle"
    /\ calls < MaxCalls
    /\ calls' = calls + 1
    /\ pre' = [songs |-> songs, lyrics |-> lyrics]

Put(rows, id, row) ==
    [i \in DOMAIN rows \cup {id} |-> IF i = id THEN row ELSE rows[i]]

Drop(rows, id) == [i \in DOMAIN rows \ {id} |-> rows[i]]

\* ------------------------------------------------------------------ AddSong

\* WithTransaction when fn returned fnErr and tx.Rollback() returned rbErr:
\* the error of the rollback is assigned to err and err is returned
WithTransactionFnFailed(fnErr, rbErr) ==
    LET err == rbErr IN IF err # Nil THEN err ELSE err

\* WithTransaction when fn returned nil and tx.Commit() returned commitErr
WithTransactionFnOk(commitErr) ==
    IF commitErr # Nil THEN commitErr ELSE Nil

\* AddSong's return once WithTransaction returned wtErr
AddSongReturn(wtErr, songID) ==
    IF wtErr # Nil THEN [id |-> 0, err |-> wtErr]
    ELSE [id |-> songID, err |-> Nil]

\* VerseNumber with the verses numbered from the index itself
VerseNumber_ZeroBased(i) == i

\* the verse number AddSong gives the verse at index i of the slice
VerseNumber(i) == i + 1

\* the row INSERT INTO songs ... VALUES ($1, $2, $3, $4, NOW()) creates
SongRow(id, args, now) ==
    [id |-> id, group_name |-> args[1], name |-> args[2], link |-> args[3],
     release_date |-> args[4], inserted_at |-> now]

\* the row INSERT INTO lyrics ... VALUES ($1, $2, $3) creates
LyricsRow(args) ==
    [song_id |-> args[1], verse_number |-> args[2], text |-> args[3]]

\* AddSong up to s.db.Begin()
AddSong(song, verses) ==
    /\ Enter
    /\ seq < MaxSongs
    /\ \E ok \in BOOLEAN :
        /\ log' = <<Stmt("Begin", NoQuery, <<>>, ok)>>
        /\ call' = [NoCall EXCEPT !.op = "AddSong", !.song = song,
                                  !.verses = verses]
        /\ IF ok
           THEN /\ tx' = [NoTx EXCEPT !.open = TRUE]
                /\ pc' = "ins_song"
                /\ ret' = [NoRet EXCEPT !.op = "pending"]
           ELSE /\ tx' = NoTx
                /\ pc' = "idle"
                /\ ret' = [NoRet EXCEPT !.op = "AddSong", !.id = 0,
                                        !.err = ErrBackend]
    /\ UNCHANGED <<songs, lyrics, seq, created>>

\* the INSERT INTO songs ... RETURNING id of fn, scanned into songID
InsertSong ==
    /\ pc = "ins_song"
    /\ LET args == <<call.song.Group, call.song.Name, call.song.Link,
                     call.song.ReleaseDate>>
       IN \E ok \in BOOLEAN :
            /\ log' = Append(log, [Stmt("InsertSong", NoQuery, args, ok)
                                     EXCEPT !.res = IF ok THEN seq + 1 ELSE 0])
            /\ IF ok
               THEN /\ seq' = seq + 1
                    /\ tx' = [tx EXCEPT !.songs =
                                Put(@, seq + 1, SongRow(seq + 1, args, calls))]
                    /\ call' = [call EXCEPT !.songID = seq + 1, !.i = 0]
                    /\ pc' = IF Len(call.verses) = 0 THEN "commit"
                             ELSE "ins_verse"
               ELSE /\ seq' = seq
                    /\ tx' = tx
                    /\ call' = [call EXCEPT !.fnErr = ErrBackend]
                    /\ pc' = "rollback"
    /\ UNCHANGED <<songs, lyrics, ret, pre, created, calls>>

\* InsertVerse with the error of the insert dropped: the loop goes on
InsertVerse_IgnoreError ==
    /\ pc = "ins_verse"
    /\ call.i < Len(call.verses)
    /\ LET args == <<call.songID, call.i + 1, call.verses[call.i + 1]>>
       IN \E ok \in BOOLEAN :
            /\ log' = Append(log, Stmt("InsertVerse", NoQuery, args, ok))
            /\ tx' = IF ok THEN [tx EXCEPT !.lyrics = @ \cup {LyricsRow(args)}]
                     ELSE tx
            /\ call' = [call EXCEPT !.i = @ + 1]
            /\ pc' = IF call.i + 1 = Len(call.verses) THEN "commit"
                     ELSE "ins_verse"
    /\ UNCHANGED <<songs, lyrics, seq, ret, pre, created, calls>>

\* one turn of fn's loop over verses: INSERT INTO lyrics
InsertVerse ==
    /\ pc = "ins_verse"
    /\ call.i < Len(call.verses)
    /\ LET args == <<call.songID, VerseNumber(call.i), call.verses[call.i + 1]>>
       IN \E ok \in BOOLEAN :
            /\ log' = Append(log, Stmt("InsertVerse", NoQuery, args, ok))
            /\ IF ok
               THEN /\ tx' = [tx EXCEPT !.lyrics = @ \cup {LyricsRow(args)}]
                    /\ call' = [call EXCEPT !.i = @ + 1]
                    /\ pc' = IF call.i + 1 = Len(call.verses) THEN "commit"
                             ELSE "ins_verse"
               ELSE /\ tx' = tx
                    /\ call' = [call EXCEPT !.fnErr = ErrBackend]
                    /\ pc' = "rollback"
    /\ UNCHANGED <<songs, lyrics, seq, ret, pre, created, calls>>

\* fn failed: tx.Rollback(), and the return of WithTransaction and AddSong
Rollback ==
    /\ pc = "rollback"
    /\ \E ok \in BOOLEAN :
        LET rbErr == IF ok THEN Nil ELSE ErrBackend
            r == AddSongReturn(WithTransactionFnFailed(call.fnErr, rbErr),
                               call.songID)
        IN /\ log' = Append(log, Stmt("Rollback", NoQuery, <<>>, ok))
           /\ tx' = NoTx
           /\ ret' = [NoRet EXCEPT !.op = "AddSong", !.id = r.id, !.err = r.err]
    /\ pc' = "idle"
    /\ UNCHANGED <<songs, lyrics, seq, call, pre, created, calls>>

\* the tables once the rows pending in t are committed
CommitSongs(t) ==
    [i \in DOMAIN songs \cup DOMAIN t.songs |->
        IF i \in DOMAIN t.songs THEN t.songs[i] ELSE songs[i]]

CommitLyrics(t) == lyrics \cup t.lyrics

\* fn succeeded: tx.Commit(), and the return of WithTransaction and AddSong
Commit ==
    /\ pc = "commit"
    /\ \E ok \in BOOLEAN :
        LET commitErr == IF ok THEN Nil ELSE ErrBackend
            r == AddSongReturn(WithTransactionFnOk(commitErr), call.songID)
        IN /\ log' = Append(log, Stmt("Commit", NoQuery, <<>>, ok))
           /\ songs' = IF ok THEN CommitSongs(tx) ELSE songs
           /\ lyrics' = IF ok THEN CommitLyrics(tx) ELSE lyrics
           /\ created' = IF ok THEN Put(created, call.songID, call.verses)
                         ELSE created
           /\ tx' = NoTx
           /\ ret' = [NoRet EXCEPT !.op = "AddSong", !.id = r.id, !.err = r.err]
    /\ pc' = "idle"
    /\ UNCHANGED <<seq, call, pre, calls>>

\* ------------------------------------------------------------------ GetSong

\* the row SELECT id, group_name, name, link, release_date, inserted_at
\* FROM songs WHERE id = $1 returns, in column order
SelectSong(rows, id) ==
    <<rows[id].id, rows[id].group_name, rows[id].name, rows[id].link,
      rows[id].release_date, rows[id].inserted_at>>

\* Scan(&song.ID, &song.Group, &song.Name, &song.Link, &song.ReleaseDate,
\* &song.InsertedAt) of one result row
ScanSong(cols) ==
    [ID |-> cols[1], Group |-> cols[2], Name |-> cols[3], Link |-> cols[4],
     ReleaseDate |-> cols[5], InsertedAt |-> cols[6]]

\* db.QueryRow(...).Scan(...): the error and the record scanned
QueryRowScan(rows, id, ok) ==
    IF ~ok THEN [err |-> ErrBackend, song |-> NoSong]
    ELSE IF id \notin DOMAIN rows THEN [err |-> ErrNoRows, song |-> NoSong]
    ELSE [err |-> Nil, song |-> ScanSong(SelectSong(rows, id))]

\* GetSongReturn with sql.ErrNoRows passed on like any other error
GetSongReturn_NoTranslate(scan) ==
    IF scan.err # Nil THEN [song |-> NoSong, err |-> scan.err]
    ELSE [song |-> scan.song, err |-> Nil]

\* GetSong's return given the outcome of the scan; NoSong stands for nil
GetSongReturn(scan) ==
    IF scan.err = ErrNoRows THEN [song |-> NoSong, err |-> ErrSongNotFound]
    ELSE IF scan.err # Nil THEN [song |-> NoSong, err |-> scan.err]
    ELSE [song |-> scan.song, err |-> Nil]

GetSong(songID) ==
    /\ Enter
    /\ \E ok \in BOOLEAN :
        LET r == GetSongReturn(QueryRowScan(songs, songID, ok))
        IN /\ log' = <<Stmt("SelectSong", NoQuery, <<songID>>, ok)>>
           /\ ret' = [op |-> "GetSong", id |-> 0, err |-> r.err, song |-> r.song]
           /\ call' = [NoCall EXCEPT !.op = "GetSong", !.id = songID,
                          !.fault = IF ok THEN "none" ELSE "query failed"]
    /\ pc' = "idle"
    /\ UNCHANGED <<songs, lyrics, seq, tx, created>>

\* --------------------------------------------------------------- DeleteSong

\* rows affected by DELETE FROM songs WHERE id = $1
DeleteRowsAffected(rows, id) == Cardinality({i \in DOMAIN rows : i = id})

\* the lyrics left once song id is deleted: lyrics.song_id is a foreign key
\* to songs, so a delete that succeeds takes the song's lyrics with it
LyricsAfterDelete(rows, id) == {l \in rows : l.song_id # id}

\* DeleteSongReturn with the test of the affected-row count left out
DeleteSongReturn_NoCheck(rowsAffected, raErr) ==
    IF raErr # Nil THEN raErr ELSE Nil

\* DeleteSong's return once Exec succeeded; raErr is RowsAffected's error
DeleteSongReturn(rowsAffected, raErr) ==
    IF raErr # Nil THEN raErr
    ELSE IF rowsAffected = 0 THEN ErrSongNotFound
    ELSE Nil

DeleteSong(songID) ==
    /\ Enter
    /\ \E outcome \in {"none", "exec failed", "RowsAffected failed"} :
        /\ log' = <<Stmt("DeleteSong", NoQuery, <<songID>>,
                         outcome # "exec failed")>>
        /\ IF outcome = "exec failed"
           THEN /\ songs' = songs
                /\ lyrics' = lyrics
                /\ ret' = [NoRet EXCEPT !.op = "DeleteSong", !.err = ErrBackend]
           ELSE /\ songs' = Drop(songs, songID)
                /\ lyrics' = IF songID \in DOMAIN songs
                             THEN LyricsAfterDelete(lyrics, songID) ELSE lyrics
                /\ ret' = [NoRet EXCEPT !.op = "DeleteSong", !.err =
                            DeleteSongReturn(DeleteRowsAffected(songs, songID),
                                IF outcome = "none" THEN Nil ELSE ErrBackend)]
        /\ call' = [NoCall EXCEPT !.op = "DeleteSong", !.id = songID,
                                  !.fault = outcome]
    /\ pc' = "idle"
    /\ UNCHANGED <<seq, tx, created>>

\* --------------------------------------------------------------- UpdateSong

\* Clause with argIndex never incremented: every clause names $1
Clause_NoIncrement(col, value, argIndex) ==
    IF value # "" THEN <<[col |-> col, param |-> 1]>> ELSE <<>>

\* one "col = $n, " clause, appended when the field is not empty
Clause(col, value, argIndex) ==
    IF value # "" THEN <<[col |-> col, param |-> argIndex]>> ELSE <<>>

\* the value appended to args with the clause
Arg(value) == IF value # "" THEN <<value>> ELSE <<>>

\* the clauses of buildUpdateSongQuery in the order group, name, release date,
\* link, each with the next positional parameter
SongClauses(updates) ==
    LET c1 == Clause("group_name", updates.Group, 1)
        c2 == c1 \o Clause("name", updates.Name, Len(c1) + 1)
        c3 == c2 \o Clause("release_date", updates.ReleaseDate, Len(c2) + 1)
    IN c3 \o Clause("link", updates.Link, Len(c3) + 1)

SongArgs(updates) ==
    Arg(updates.Group) \o Arg(updates.Name) \o Arg(updates.ReleaseDate)
      \o Arg(updates.Link)

\* buildUpdateSongQuery with the test of updatesApplied left out
buildUpdateSongQuery_NoCheck(songID, updates) ==
    [query |-> [set |-> SongClauses(updates),
                where |-> Len(SongClauses(updates)) + 1],
     args |-> Append(SongArgs(updates), songID), err |-> Nil]

\* buildUpdateSongQuery: no clause is an error; otherwise the query ends with
\* WHERE id = $argIndex and the id is the last argument
buildUpdateSongQuery(songID, updates) ==
    LET set == SongClauses(updates)
        argIndex == Len(set) + 1
        updatesApplied == Len(set) > 0
    IN IF ~updatesApplied
       THEN [query |-> NoQuery, args |-> <<>>, err |-> ErrNoValidFields]
       ELSE [query |-> [set |-> set, where |-> argIndex],
             args |-> Append(SongArgs(updates), songID), err |-> Nil]

\* buildUpdateVerseQuery with the song id and the verse number swapped
buildUpdateVerseQuery_Swapped(songID, verses, order) ==
    [k \in 1..Len(order) |-> <<verses[order[k]], order[k], songID>>]

\* buildUpdateVerseQuery with the map ranged over in the order given:
\* UPDATE lyrics SET text = $1 WHERE song_id = $2 AND verse_number = $3
buildUpdateVerseQuery(songID, verses, order) ==
    [k \in 1..Len(order) |-> <<verses[order[k]], songID, order[k]>>]

\* the value column col of row has after SET <q.set>: that of the parameter
\* of the last clause naming the column, or the old one
SetValue(row, q, args, col) ==
    LET ks == {k \in 1..Len(q.set) : q.set[k].col = col}
    IN IF ks = {} THEN row[col]
       ELSE args[q.set[CHOOSE k \in ks : \A j \in ks : j <= k].param]

\* the songs table after UPDATE songs SET <q.set> WHERE id = $<q.where>
ExecUpdateSongs(rows, q, args) ==
    [i \in DOMAIN rows |->
        IF rows[i].id # args[q.where] THEN rows[i]
        ELSE [id |-> SetValue(rows[i], q, args, "id"),
              group_name |-> SetValue(rows[i], q, args, "group_name"),
              name |-> SetValue(rows[i], q, args, "name"),
              link |-> SetValue(rows[i], q, args, "link"),
              release_date |-> SetValue(rows[i], q, args, "release_date"),
              inserted_at |-> SetValue(rows[i], q, args, "inserted_at")]]

\* ExecUpdateLyrics with the verse number left out of the WHERE clause
ExecUpdateLyrics_AnyVerse(rows, args) ==
    { IF l.song_id = args[2] THEN [l EXCEPT !.text = args[1]] ELSE l :
        l \in rows }

\* the lyrics table after one statement of buildUpdateVerseQuery
ExecUpdateLyrics(rows, args) ==
    { IF l.song_id = args[2] /\ l.verse_number = args[3]
      THEN [l EXCEPT !.text = args[1]] ELSE l : l \in rows }

\* UpdateSong is over and returns err
UpdateSongReturns(err) ==
    /\ ret' = [NoRet EXCEPT !.op = "UpdateSong", !.err = err]
    /\ pc' = "idle"

\* UpdateSong reaches its loop over the verse queries
UpdateSongVerses(c) ==
    \E order \in Perms(DOMAIN c.updates.Verses) :
        LET queue == buildUpdateVerseQuery(c.id, c.updates.Verses, order)
        IN /\ call' = [c EXCEPT !.queue = queue]
           /\ IF Len(queue) = 0 THEN UpdateSongReturns(Nil)
              ELSE /\ pc' = "upd_verse"
                   /\ ret' = [NoRet EXCEPT !.op = "pending"]

\* UpdateSong up to the first statement it sends
UpdateSong(songID, updates) ==
    /\ Enter
    /\ log' = <<>>
    /\ LET b == buildUpdateSongQuery(songID, updates)
           c == [NoCall EXCEPT !.op = "UpdateSong", !.id = songID,
                               !.updates = updates, !.query = b.query,
                               !.args = b.args]
       IN IF b.err # Nil /\ Cardinality(DOMAIN updates.Verses) = 0
          THEN /\ call' = c
               /\ UpdateSongReturns(b.err)
          ELSE IF b.query # NoQuery
          THEN /\ call' = c
               /\ pc' = "upd_song"
               /\ ret' = [NoRet EXCEPT !.op = "pending"]
          ELSE UpdateSongVerses(c)
    /\ UNCHANGED <<songs, lyrics, seq, tx, created>>

\* s.db.Exec(songQuery, songArgs...)
ExecSongUpdate ==
    /\ pc = "upd_song"
    /\ \E ok \in BOOLEAN :
        /\ log' = Append(log, Stmt("UpdateSongs", call.query, call.args, ok))
        /\ IF ok
           THEN /\ songs' = ExecUpdateSongs(songs, call.query, call.args)
                /\ UpdateSongVerses(call)
           ELSE /\ songs' = songs
                /\ call' = call
                /\ UpdateSongReturns(ErrUpdateSongFailed)
    /\ UNCHANGED <<lyrics, seq, tx, pre, created, calls>>

\* ExecVerseUpdate with the error of Exec dropped: the loop goes on
ExecVerseUpdate_ContinueOnError ==
    /\ pc = "upd_verse"
    /\ \E ok \in BOOLEAN :
        /\ log' = Append(log, Stmt("UpdateLyrics", NoQuery, Head(call.queue), ok))
        /\ lyrics' = IF ok THEN ExecUpdateLyrics(lyrics, Head(call.queue))
                     ELSE lyrics
        /\ call' = [call EXCEPT !.queue = Tail(@)]
        /\ IF Len(call.queue) = 1 THEN UpdateSongReturns(Nil)
           ELSE pc' = "upd_verse" /\ ret' = ret
    /\ UNCHANGED <<songs, seq, tx, pre, created, calls>>

\* one turn of the loop: s.db.Exec(q.Query, q.Args...)
ExecVerseUpdate ==
    /\ pc = "upd_verse"
    /\ \E ok \in BOOLEAN :
        /\ log' = Append(log, Stmt("UpdateLyrics", NoQuery, Head(call.queue), ok))
        /\ IF ok
           THEN /\ lyrics' = ExecUpdateLyrics(lyrics, Head(call.queue))
                /\ call' = [call EXCEPT !.queue = Tail(@)]
                /\ IF Len(call.queue) = 1 THEN UpdateSongReturns(Nil)
                   ELSE pc' = "upd_verse" /\ ret' = ret
           ELSE /\ lyrics' = lyrics
                /\ call' = call
                /\ UpdateSongReturns(ErrUpdateVerseFailed)
    /\ UNCHANGED <<songs, seq, tx, pre, created, calls>>

SongIDs == 1..MaxSongs

\* the patches of the caller of Spec: no field, one field or all four, with
\* no verse, the last verse or every verse
CallerUpdates ==
    { u \in SongUpdates :
        /\ \/ u.Name = "" /\ u.ReleaseDate = "" /\ u.Link = ""
           \/ u.Group # "" /\ u.Name # "" /\ u.ReleaseDate # "" /\ u.Link # ""
        /\ DOMAIN u.Verses \in {{}, {MaxVerses}, 1..MaxVerses} }

Next ==
    \/ \E song \in SongInputs, verses \in VerseInputs : AddSong(song, verses)
    \/ InsertSong
    \/ InsertVerse
    \/ Rollback
    \/ Commit
    \/ \E songID \in SongIDs : GetSong(songID)
    \/ \E songID \in SongIDs : DeleteSong(songID)
    \/ \E songID \in SongIDs, updates \in CallerUpdates : UpdateSong(songID, updates)
    \/ ExecSongUpdate
    \/ ExecVerseUpdate

Spec == Init /\ [][Next]_vars

\* ------------------------------------------------- UpdateSong as the last call

\* the tables after the AddSong calls number 1..n, call id given song and the
\* first ns[id] verses, each committed
AddedSongs(ns, song) ==
    [id \in DOMAIN ns |->
        SongRow(id, <<song.Group, song.Name, song.Link, song.ReleaseDate>>, id)]

AddedLyrics(ns) ==
    UNION { { LyricsRow(<<id, VerseNumber(i), VerseTexts[i + 1]>>) :
                i \in 0..(ns[id] - 1) } : id \in DOMAIN ns }

\* the caller has made up to MaxCalls - 1 calls, each an AddSong that
\* committed, and is about to make its last call
InitUpdate ==
    \E n \in 0..(MaxCalls - 1), song \in SongInputs :
      \E ns \in [1..n -> 0..MaxVerses] :
        /\ n <= MaxSongs
        /\ songs = AddedSongs(ns, song)
        /\ lyrics = AddedLyrics(ns)
        /\ seq = n
        /\ created = [id \in 1..n |-> SubSeq(VerseTexts, 1, ns[id])]
        /\ calls = MaxCalls - 1
        /\ tx = NoTx
        /\ pc = "idle"
        /\ call = NoCall
        /\ log = <<>>
        /\ ret = NoRet
        /\ pre = [songs |-> EmptyRows, lyrics |-> {}]

NextUpdate ==
    \/ \E songID \in SongIDs, updates \in SongUpdates : UpdateSong(songID, updates)
    \/ ExecSongUpdate
    \/ ExecVerseUpdate

SpecUpdate == InitUpdate /\ [][NextUpdate]_vars

\* ------------------------------------------------------------------ claims

\* the last call made was op and it has returned
Done(op) == pc = "idle" /\ ret.op = op

LyricsOf(id, rows) == {l \in rows : l.song_id = id}

Positions(stmt) == {k \in 1..Len(log) : log[k].stmt = stmt}

\* the call AddSong made committed its song and all of its verses
AddSongCommitted ==
    /\ Cardinality(DOMAIN songs \ DOMAIN pre.songs) = 1
    /\ \A id \in DOMAIN songs \ DOMAIN pre.songs :
         Cardinality(LyricsOf(id, lyrics)) = Len(call.verses)
    /\ Cardinality(lyrics \ pre.lyrics) = Len(call.verses)

\* C1: a completed AddSong returns a nil error only when the Song row and all
\* len(verses) Lyrics rows were committed, and then returns the new identifier;
\* in every other completed call it created no row of either kind and returns
\* a non-nil error with identifier 0.
C1_AddSongAllOrNothing ==
    Done("AddSong") =>
        /\ ret.err = Nil =>
             /\ AddSongCommitted
             /\ ret.id \in DOMAIN songs \ DOMAIN pre.songs
        /\ ~AddSongCommitted =>
             /\ songs = pre.songs
             /\ lyrics = pre.lyrics
             /\ ret.err # Nil
             /\ ret.id = 0

\* C2: in every committed state each Song row was created by an AddSong(song,
\* verses) and has exactly len(verses) Lyrics rows, numbered 1..len(verses)
\* with no gap and no duplicate; UpdateSong adds and removes no Lyrics row.
C2_VersesOfEverySong ==
    /\ \A id \in DOMAIN songs :
        /\ id \in DOMAIN created
        /\ {l.verse_number : l \in LyricsOf(id, lyrics)} = 1..Len(created[id])
        /\ Cardinality(LyricsOf(id, lyrics)) = Len(created[id])
    /\ call.op = "UpdateSong" =>
        /\ {<<l.song_id, l.verse_number>> : l \in lyrics}
             = {<<l.song_id, l.verse_number>> : l \in pre.lyrics}
        /\ Cardinality(lyrics) = Cardinality(pre.lyrics)

\* a committed song keeps both of its verses while a later AddSong is rolled
\* back after a verse insert failed
C2_Witness ==
    /\ Done("AddSong")
    /\ Positions("Rollback") # {}
    /\ \E k \in Positions("InsertVerse") : ~log[k].ok
    /\ \E id \in DOMAIN songs : Len(created[id]) = 2

\* the inserts and the ends of the transaction among the statements of a call
IsInsert(e) == e.stmt \in {"InsertSong", "InsertVerse"}

IsEnd(e) == e.stmt \in {"Commit", "Rollback"}

Ends == {k \in 1..Len(log) : IsEnd(log[k])}

FailedInserts == {k \in 1..Len(log) : IsInsert(log[k]) /\ ~log[k].ok}

\* the order of the statements of an AddSong call: Begin first, then the
\* single song insert, then the verse inserts in input order, the i-th
\* carrying (generated song id, i, verses[i]); Commit only after every insert
\* succeeded, Rollback only right after the first failing insert; nothing
\* after the end; the identifier of the failure-free path
AddSongOrder ==
    /\ Len(log) >= 1
    /\ Positions("Begin") = {1}
    /\ Positions("InsertSong") \subseteq {2}
    /\ Len(log) >= 2 =>
         /\ log[2].stmt = "InsertSong"
         /\ log[2].args = <<call.song.Group, call.song.Name,
                            call.song.Link, call.song.ReleaseDate>>
    /\ \A k \in 3..Len(log) :
         \/ /\ log[k].stmt = "InsertVerse"
            /\ k - 2 <= Len(call.verses)
            /\ log[k].args = <<log[2].res, k - 2, call.verses[k - 2]>>
            /\ \A j \in 2..(k - 1) : log[j].ok
         \/ IsEnd(log[k])
    /\ \A k \in Positions("Commit") :
         /\ k = Len(call.verses) + 3
         /\ FailedInserts = {}
    /\ \A k \in Positions("Rollback") : FailedInserts = {k - 1}
    /\ \A k \in Ends : k = Len(log) /\ Done("AddSong")
    /\ \A k \in FailedInserts : k >= Len(log) - 1
    /\ Done("AddSong") /\ (\A k \in 1..Len(log) : log[k].ok) =>
         /\ ret.err = Nil
         /\ ret.id = log[2].res
         /\ ret.id \in DOMAIN songs \ DOMAIN pre.songs

\* the transaction is ended exactly once, by Commit if and only if every
\* insert succeeded and otherwise by Rollback
EndedOnce ==
    /\ Cardinality(Ends) = 1
    /\ FailedInserts = {} <=> Positions("Commit") # {}

\* C3 as stated: every AddSong call follows the order above and ends the
\* transaction exactly once.
C3_EveryCallEndsTransaction ==
    call.op = "AddSong" =>
        /\ AddSongOrder
        /\ Done("AddSong") => EndedOnce

\* C3, amended: every AddSong call follows the order above; a call whose Begin
\* succeeded ends the transaction exactly once, by Commit if and only if every
\* insert succeeded and otherwise by Rollback right after the first failing
\* insert; a call whose Begin failed issues no other statement, ends no
\* transaction and returns an error.
C3_TransactionProtocol ==
    call.op = "AddSong" =>
        /\ AddSongOrder
        /\ Done("AddSong") /\ log[1].ok => EndedOnce
        /\ ~log[1].ok => Len(log) = 1 /\ Done("AddSong") /\ ret.err # Nil

\* an AddSong of two verses is rolled back after its second verse insert failed
C3_Witness ==
    /\ Done("AddSong")
    /\ Len(log) = 5
    /\ log[3].ok
    /\ ~log[4].ok
    /\ log[5].stmt = "Rollback"

\* C4: GetSong changes nothing in the store; when the query fails it returns an
\* error that is not NotFound and no record; otherwise it returns NotFound and
\* no record exactly when no committed Song row has the id (never created,
\* rolled back, or deleted), and the row's fields with a nil error when the row
\* exists.
C4_GetSong ==
    Done("GetSong") =>
        /\ songs = pre.songs
        /\ lyrics = pre.lyrics
        /\ call.fault # "none" =>
             /\ ret.err \notin {Nil, ErrSongNotFound}
             /\ ret.song = NoSong
        /\ call.fault = "none" =>
             /\ ret.err = ErrSongNotFound <=> call.id \notin DOMAIN songs
             /\ call.id \notin DOMAIN songs => ret.song = NoSong
             /\ call.id \in DOMAIN songs =>
                  /\ ret.err = Nil
                  /\ ret.song.ID = call.id
                  /\ ret.song.Group = songs[call.id].group_name
                  /\ ret.song.Name = songs[call.id].name
                  /\ ret.song.Link = songs[call.id].link
                  /\ ret.song.ReleaseDate = songs[call.id].release_date
                  /\ ret.song.InsertedAt = songs[call.id].inserted_at
        /\ ret.err = ErrSongNotFound => call.id \notin DOMAIN songs

\* GetSong returns NotFound for a song that was committed and then deleted
C4_Witness ==
    /\ Done("GetSong")
    /\ ret.err = ErrSongNotFound
    /\ call.id \in DOMAIN created

\* C5: DeleteSong of an id with no Song row returns NotFound and leaves the
\* songs table unchanged, also when the id was deleted before (ids are never
\* reused); DeleteSong of an existing id removes exactly that row and returns
\* nil; a backend failure is returned as an error that is not NotFound (and
\* not nil).
C5_DeleteSong ==
    /\ \A id \in DOMAIN songs \cup DOMAIN created : id <= seq
    /\ DOMAIN songs \subseteq DOMAIN created
    /\ Done("DeleteSong") =>
        /\ call.fault # "none" => ret.err \notin {Nil, ErrSongNotFound}
        /\ call.fault = "exec failed" => songs = pre.songs
        /\ call.fault = "none" /\ call.id \notin DOMAIN pre.songs =>
             /\ ret.err = ErrSongNotFound
             /\ songs = pre.songs
        /\ call.fault = "none" /\ call.id \in DOMAIN pre.songs =>
             /\ ret.err = Nil
             /\ DOMAIN songs = DOMAIN pre.songs \ {call.id}
             /\ \A id \in DOMAIN songs : songs[id] = pre.songs[id]
        /\ ret.err = ErrSongNotFound =>
             call.id \notin DOMAIN pre.songs /\ songs = pre.songs

\* a second DeleteSong of a song deleted before returns NotFound
C5_Witness ==
    /\ Done("DeleteSong")
    /\ ret.err = ErrSongNotFound
    /\ call.id \in DOMAIN created
    /\ songs = pre.songs

\* ------------------------------------------------------- claims on UpdateSong

UpdateColumns == {"group_name", "name", "release_date", "link"}

\* the field of the patch that goes to a column
PatchValue(u, col) ==
    CASE col = "group_name" -> u.Group
      [] col = "name" -> u.Name
      [] col = "release_date" -> u.ReleaseDate
      [] col = "link" -> u.Link

\* the columns whose field in the patch is not empty
SetCols(u) == {col \in UpdateColumns : PatchValue(u, col) # ""}

\* rows with the columns in SetCols(u) of row id set to the patch's values
ExpectedSongs(rows, id, u) ==
    [i \in DOMAIN rows |->
        IF i # id THEN rows[i]
        ELSE [id |-> rows[i].id,
              group_name |-> IF u.Group # "" THEN u.Group ELSE rows[i].group_name,
              name |-> IF u.Name # "" THEN u.Name ELSE rows[i].name,
              link |-> IF u.Link # "" THEN u.Link ELSE rows[i].link,
              release_date |-> IF u.ReleaseDate # "" THEN u.ReleaseDate
                               ELSE rows[i].release_date,
              inserted_at |-> rows[i].inserted_at]]

\* rows with the text of verse n of song id replaced for the n in done
ExpectedLyrics(rows, id, verses, done) ==
    { IF l.song_id = id /\ l.verse_number \in done
      THEN [l EXCEPT !.text = verses[l.verse_number]] ELSE l : l \in rows }

\* C6: UpdateSong with group, name, release date and link all empty and an
\* empty verse mapping returns the validation error "no valid fields to
\* update", sends no statement, and leaves every Song and Lyrics row unchanged.
C6_EmptyPatchRejected ==
    call.op = "UpdateSong" /\ SetCols(call.updates) = {}
      /\ DOMAIN call.updates.Verses = {} =>
        /\ Done("UpdateSong")
        /\ ret.err = ErrNoValidFields
        /\ log = <<>>
        /\ songs = pre.songs
        /\ lyrics = pre.lyrics

\* the empty patch is rejected for a song that exists and has verses
C6_Witness ==
    /\ Done("UpdateSong")
    /\ SetCols(call.updates) = {}
    /\ DOMAIN call.updates.Verses = {}
    /\ ret.err = ErrNoValidFields
    /\ call.id \in DOMAIN songs
    /\ LyricsOf(call.id, lyrics) # {}

\* C7: a successful UpdateSong whose patch names the non-empty set S of song
\* fields and no verse sends one UPDATE whose i-th clause is bound to
\* parameter i and whose id is bound to the last parameter, sets exactly the
\* columns in S of the row with that id to the patch's values, and leaves the
\* other columns of the row, every other Song row and every Lyrics row
\* unchanged.
C7_SongFieldsOnly ==
    Done("UpdateSong") /\ ret.err = Nil /\ SetCols(call.updates) # {}
      /\ DOMAIN call.updates.Verses = {} =>
        /\ songs = ExpectedSongs(pre.songs, call.id, call.updates)
        /\ lyrics = pre.lyrics
        /\ Len(log) = 1
        /\ log[1].stmt = "UpdateSongs"
        /\ LET q == log[1].q
               a == log[1].args
           IN /\ {q.set[k].col : k \in 1..Len(q.set)} = SetCols(call.updates)
              /\ Len(q.set) = Cardinality(SetCols(call.updates))
              /\ \A k \in 1..Len(q.set) :
                   /\ q.set[k].param = k
                   /\ a[k] = PatchValue(call.updates, q.set[k].col)
              /\ q.where = Len(q.set) + 1
              /\ Len(a) = q.where
              /\ a[q.where] = call.id

\* UpdateSong(id, {Group: "G2"}) changed the group of one of two songs
C7_Witness ==
    /\ Done("UpdateSong")
    /\ ret.err = Nil
    /\ SetCols(call.updates) = {"group_name"}
    /\ DOMAIN call.updates.Verses = {}
    /\ Cardinality(DOMAIN songs) = 2
    /\ call.id \in DOMAIN songs
    /\ songs[call.id].group_name = "G2"
    /\ pre.songs[call.id].group_name = "G1"

\* C8: UpdateSong with all song fields empty and a non-empty verse mapping
\* does not return the validation error and sends no UPDATE of songs; no Song
\* row changes; on success the Lyrics rows (id, n) for the n in the mapping
\* have the mapped text and every other Lyrics row is unchanged.
C8_VersesOnly ==
    call.op = "UpdateSong" /\ SetCols(call.updates) = {}
      /\ DOMAIN call.updates.Verses # {} =>
        /\ ret.err # ErrNoValidFields
        /\ Positions("UpdateSongs") = {}
        /\ songs = pre.songs
        /\ Done("UpdateSong") /\ ret.err = Nil =>
             lyrics = ExpectedLyrics(pre.lyrics, call.id, call.updates.Verses,
                                     DOMAIN call.updates.Verses)

\* UpdateSong(id, {Verses: {2: "w2"}}) changed verse 2 of a song while another
\* song has verses too
C8_Witness ==
    /\ Done("UpdateSong")
    /\ ret.err = Nil
    /\ SetCols(call.updates) = {}
    /\ DOMAIN call.updates.Verses = {2}
    /\ \E l \in lyrics :
         l.song_id = call.id /\ l.verse_number = 2 /\ l.text = "w2"
    /\ \E l \in lyrics : l.song_id # call.id
    /\ lyrics # pre.lyrics

\* the verse numbers whose UPDATE of lyrics succeeded in the current call
VersesUpdated ==
    {log[k].args[3] : k \in {j \in Positions("UpdateLyrics") : log[j].ok}}

\* C9: UpdateSong sends its statements one after the other with no
\* transaction: the UPDATE of songs first when a song field is set, then one
\* UPDATE of lyrics per entry of the verse mapping; at the first statement
\* that fails it stops and returns an error; what the statements before the
\* failing one did stays.
C9_UpdateNotAtomic ==
    call.op = "UpdateSong" =>
        LET u == call.updates
            songDone == Positions("UpdateSongs") # {} /\ log[1].ok
        IN /\ Positions("UpdateSongs") \subseteq {1}
           /\ Len(log) >= 1 =>
                (log[1].stmt = "UpdateSongs" <=> SetCols(u) # {})
           /\ \A k \in 1..Len(log) :
                /\ log[k].stmt \in {"UpdateSongs", "UpdateLyrics"}
                /\ ~log[k].ok =>
                     /\ k = Len(log)
                     /\ Done("UpdateSong")
                     /\ ret.err \notin {Nil, ErrNoValidFields}
           /\ \A k \in Positions("UpdateLyrics") :
                /\ log[k].args[3] \in DOMAIN u.Verses
                /\ log[k].args = <<u.Verses[log[k].args[3]], call.id,
                                   log[k].args[3]>>
                /\ \A j \in Positions("UpdateLyrics") :
                     j # k => log[j].args[3] # log[k].args[3]
           /\ songs = IF songDone THEN ExpectedSongs(pre.songs, call.id, u)
                      ELSE pre.songs
           /\ lyrics = ExpectedLyrics(pre.lyrics, call.id, u.Verses,
                                      VersesUpdated)
           /\ Done("UpdateSong") /\ ret.err = Nil =>
                /\ \A k \in 1..Len(log) : log[k].ok
                /\ VersesUpdated = DOMAIN u.Verses
                /\ SetCols(u) # {} => songDone
           /\ Done("UpdateSong") /\ ret.err \notin {Nil, ErrNoValidFields} =>
                Len(log) >= 1 /\ ~log[Len(log)].ok

\* a failed UpdateSong left the song fields and one of two requested verses
\* updated
C9_Witness ==
    /\ Done("UpdateSong")
    /\ ret.err = ErrUpdateVerseFailed
    /\ songs # pre.songs
    /\ lyrics # pre.lyrics
    /\ Cardinality(VersesUpdated) = 1
    /\ Cardinality(DOMAIN call.updates.Verses) = 2

\* the lyrics table after the statements of queue, one after the other
RECURSIVE RunVerseQueries(_, _)
RunVerseQueries(rows, queue) ==
    IF Len(queue) = 0 THEN rows
    ELSE RunVerseQueries(ExecUpdateLyrics(rows, Head(queue)), Tail(queue))

\* C10: when every statement of an UpdateSong succeeds, the tables after the
\* call are those that any other order of ranging over the verse mapping
\* gives: the statements target pairwise distinct (song id, verse number).
C10_OrderIndependent ==
    Done("UpdateSong") /\ ret.err = Nil =>
        \A order \in Perms(DOMAIN call.updates.Verses) :
            LET queue == buildUpdateVerseQuery(call.id, call.updates.Verses,
                                               order)
            IN /\ RunVerseQueries(pre.lyrics, queue) = lyrics
               /\ \A a, b \in 1..Len(queue) :
                    a # b => <<queue[a][2], queue[a][3]>>
                               # <<queue[b][2], queue[b][3]>>
               /\ Len(queue) = Cardinality(DOMAIN call.updates.Verses)

\* both verses of a song were updated, verse 2 before verse 1
C10_Witness ==
    /\ Done("UpdateSong")
    /\ ret.err = Nil
    /\ Positions("UpdateLyrics") # {}
    /\ Cardinality(VersesUpdated) = 2
    /\ log[Len(log)].args[3] = 1
    /\ Cardinality(lyrics \ pre.lyrics) = 2

====
